---- MODULE Spec2Model ----
(***************************************************************************)
(* Model of extern/wechat.py: the recipient filter, the request/response   *)
(* interpreter, the retrying senders, the deferred-call wrapper and the    *)
(* public entry points.                                                    *)
(*                                                                         *)
(* Python values are tagged tuples <<tag, payload>> so that values of      *)
(* different Python types can live in one set:                             *)
(*   <<"none", 0>>   None            <<"int", n>>    an int                *)
(*   <<"str", cs>>   a str, cs the sequence of its code points             *)
(*   <<"list", xs>>  a list          <<"dict", r>>   a dict (see below)    *)
(* A raised exception is the value <<"raise", name>>.                      *)
(***************************************************************************)
EXTENDS Integers, Sequences, FiniteSets, TLC

VARIABLES
    config,     \* extern.config.wechat_config, read-only after startup
    fpc,        \* user filter runs: position
    fin,        \* user filter runs: the iterable handed to the filter
    fout,       \* user filter runs: the filter's result on fin
    fout2,      \* user filter runs: the filter's result on its own result
    ppc,        \* interpreter runs: position
    pin,        \* interpreter runs: the post's outcome and the detail parser
    pout,       \* interpreter runs: what _post_and_parse returned
    call,       \* the public function running on the calling thread
    frame,      \* per thread, the sender (_send_wechat, _invite_to_wechat) it runs
    jobs,       \* the one-shot jobs registered with the scheduler, not yet run
    now,        \* datetime.now(), in seconds
    wpc,        \* wrapper runs: position
    win,        \* wrapper runs: the arguments of _get_caller and of the wrapper
    lpc,        \* recipient display runs: position
    lin,        \* recipient display runs: the list handed to _log_users
    lout        \* recipient display runs: what _log_users returned

filterVars == <<fpc, fin, fout, fout2>>
parseVars == <<ppc, pin, pout>>
flowVars == <<call, frame, jobs>>
wrapVars == <<wpc, win>>
logVars == <<lpc, lin, lout>>
vars == <<config, filterVars, parseVars, flowVars, wrapVars, logVars, now>>

----------------------------------------------------------------------------
(* Bounds *)

MaxLen == 4         \* longest iterable handed to the user filter alone
MaxDetail == 2      \* longest detail list in a response
MaxUsers == 2       \* longest iterable handed to send_wechat
MaxRetry == 3       \* largest retry_times a caller passes
MaxNow == 6         \* public calls are made before this time
MaxDelta == 10      \* longest timedelta handed to _get_caller
MaxLogged == 11     \* longest list handed to _log_users alone
MaxBatch == 2       \* largest CONFIG.send_batch

----------------------------------------------------------------------------
(* Python values *)

None == <<"none", 0>>
PyInt(n) == <<"int", n>>
PyStr(cs) == <<"str", cs>>
PyList(xs) == <<"list", xs>>
PySet(S) == <<"set", S>>
PyTuple(a, b) == <<"tuple", <<a, b>>>>
\* a dict, as the record of the values under the keys the module reads;
\* Absent marks a key the dict does not have
Absent == <<"absent", 0>>
Dict(status, data, detail, errMsg) ==
    <<"dict", [status |-> status, data |-> data, detail |-> detail, errMsg |-> errMsg]>>
EmptyDict == Dict(Absent, Absent, Absent, Absent)
Raise(name) == <<"raise", name>>

IsNone(v) == v[1] = "none"
IsInt(v) == v[1] = "int"
IsStr(v) == v[1] = "str"
IsList(v) == v[1] = "list"
IsDict(v) == v[1] = "dict"
IsRaise(v) == v[1] = "raise"

\* code points of the characters the model uses
Digit(d) == 48 + d
S1 == PyStr(<<49>>)             \* "1"
S2 == PyStr(<<50>>)             \* "2"
S3 == PyStr(<<51>>)             \* "3"
S9 == PyStr(<<57>>)             \* "9"
S10 == PyStr(<<49, 48>>)        \* "10"
FAIL == PyStr(<<102, 97, 105, 108>>)    \* "fail"
BAD == PyStr(<<98, 97, 100>>)           \* "bad"
AB == PyStr(<<97, 98>>)                 \* "ab"
KeyNames == {"status", "data", "detail", "errMsg"}
KeyStr(k) ==
    CASE k = "status" -> PyStr(<<115, 116, 97, 116, 117, 115>>)
      [] k = "data" -> PyStr(<<100, 97, 116, 97>>)
      [] k = "detail" -> PyStr(<<100, 101, 116, 97, 105, 108>>)
      [] k = "errMsg" -> PyStr(<<101, 114, 114, 77, 115, 103>>)

RECURSIVE DecDigits(_)
\* the decimal digits of a natural number, most significant first
DecDigits(n) ==
    IF n < 10 THEN <<Digit(n)>>
    ELSE Append(DecDigits(n \div 10), Digit(n % 10))

\* repr(v): a str comes back wrapped in quotes
Str_repr(v) ==
    IF IsInt(v) THEN PyStr(IF v[2] < 0 THEN <<45>> \o DecDigits(-v[2]) ELSE DecDigits(v[2]))
    ELSE PyStr(<<39>> \o v[2] \o <<39>>)

\* str(v) for v an int or a str
Str(v) ==
    IF IsInt(v) THEN PyStr(IF v[2] < 0 THEN <<45>> \o DecDigits(-v[2]) ELSE DecDigits(v[2]))
    ELSE v

\* a < b for two str values: comparison by code points, a proper prefix first
StrLess(a, b) ==
    \E k \in 1..(Len(b[2])) :
        /\ \A j \in 1..(k - 1) : j <= Len(a[2]) /\ a[2][j] = b[2][j]
        /\ \/ k > Len(a[2])
           \/ k <= Len(a[2]) /\ a[2][k] < b[2][k]

RECURSIVE Sorted(_)
\* sorted(S) for a set S of str values
Sorted(S) ==
    IF S = {} THEN <<>>
    ELSE LET m == CHOOSE x \in S : \A y \in S \ {x} : StrLess(x, y)
         IN  <<m>> \o Sorted(S \ {m})

Range(s) == {s[i] : i \in 1..Len(s)}

----------------------------------------------------------------------------
(* _get_available_users *)

\* bool(v) for a value of the configuration that is None or a set
Truthy(v) == ~IsNone(v) /\ v[2] # {}

\* the allow-list tested for truth instead of for None
_get_available_users_truthy(users, cfg) ==
    LET _users == {Str(users[i]) : i \in 1..Len(users)}
        allowed == IF Truthy(cfg.receivers)
                   THEN _users \cap cfg.receivers[2]
                   ELSE _users
        kept == IF Truthy(cfg.blacklist)
                THEN allowed \ cfg.blacklist[2]
                ELSE allowed
    IN  Sorted(kept)

_get_available_users(users, cfg) ==
    LET _users == {Str(users[i]) : i \in 1..Len(users)}
        allowed == IF ~IsNone(cfg.receivers)
                   THEN _users \cap cfg.receivers[2]
                   ELSE _users
        kept == IF Truthy(cfg.blacklist)
                THEN allowed \ cfg.blacklist[2]
                ELSE allowed
    IN  Sorted(kept)

----------------------------------------------------------------------------
(* Runs of the user filter alone *)

\* identifiers handed to the filter: ints and strs, some with the same str()
FilterIds == {PyInt(1), PyInt(2), PyInt(3), PyInt(10), S1, S2}

FilterReceivers == {None, PySet({}), PySet({S1, S2}), PySet({S10, S2, S3})}
FilterBlacklists == {None, PySet({}), PySet({S2}), PySet({S1, S10})}

SeqsUpTo(S, n) == UNION {[1..k -> S] : k \in 0..n}

FilterConfigs ==
    [receivers : FilterReceivers, blacklist : FilterBlacklists,
     send_batch : {1}, multithread : {FALSE}, retry : {FALSE}]

InitFilter ==
    /\ config \in FilterConfigs
    /\ ppc = "off" /\ pin = <<>> /\ pout = None
    /\ call = [state |-> "off"] /\ frame = <<>> /\ jobs = {}
    /\ wpc = "off" /\ win = <<>>
    /\ lpc = "off" /\ lin = <<>> /\ lout = None
    /\ now = 0
    /\ fin \in SeqsUpTo(FilterIds, MaxLen)
    /\ fpc = "start"
    /\ fout = <<>>
    /\ fout2 = <<>>

\* users = _get_available_users(users)
FilterOnce ==
    /\ fpc = "start"
    /\ fout' = _get_available_users(fin, config)
    /\ fpc' = "once"
    /\ UNCHANGED <<config, fin, fout2, parseVars, flowVars, wrapVars, logVars, now>>

\* the filter applied to its own result
FilterAgain ==
    /\ fpc = "once"
    /\ fout2' = _get_available_users(fout, config)
    /\ fpc' = "twice"
    /\ UNCHANGED <<config, fin, fout, parseVars, flowVars, wrapVars, logVars, now>>

NextFilter == FilterOnce \/ FilterAgain

SpecFilter == InitFilter /\ [][NextFilter]_vars

----------------------------------------------------------------------------
(* Claims about the user filter *)

StrictlyIncreasing(xs) == \A i \in 1..(Len(xs) - 1) : StrLess(xs[i], xs[i + 1])

\* the str forms of the inputs that pass the allow-list and the block-list
Surviving(users, cfg) ==
    {s \in {Str(users[i]) : i \in 1..Len(users)} :
        /\ IsNone(cfg.receivers) \/ s \in cfg.receivers[2]
        /\ IsNone(cfg.blacklist) \/ s \notin cfg.blacklist[2]}

ExampleFilterRun ==
    /\ fin = <<PyInt(1), PyInt(2), PyInt(2), PyInt(3)>>
    /\ config.receivers = PySet({S1, S2})
    /\ config.blacklist = PySet({S2})

\* C9: the filter's result is a strictly increasing list of strs whose
\* elements are exactly the str forms of the inputs that are in the
\* allow-list (when it is not None) and not in the block-list; an empty
\* allow-list leaves nothing; allow {"1","2"}, block {"2"}, input
\* [1,2,2,3] gives ["1"].
C9_FilterResult ==
    fpc # "start" =>
        /\ \A i \in 1..Len(fout) : IsStr(fout[i])
        /\ StrictlyIncreasing(fout)
        /\ Range(fout) = Surviving(fin, config)
        /\ (config.receivers = PySet({}) => fout = <<>>)
        /\ (ExampleFilterRun => fout = <<PyStr(<<49>>)>>)

C9_Witness ==
    /\ fpc = "once"
    /\ ExampleFilterRun
    /\ fout = <<PyStr(<<49>>)>>

\* C10: the filter applied to its own result returns that result.
C10_Idempotent == fpc = "twice" => fout2 = fout

C10_Witness ==
    /\ fpc = "twice"
    /\ Len(fout) >= 2
    /\ \E i \in 1..Len(fin) : IsStr(fin[i])
    /\ \E i \in 1..Len(fin) : IsInt(fin[i])
    /\ fout2 = fout

----------------------------------------------------------------------------
(* Python operations on decoded JSON values; each gives a value or a raise *)

\* v[key] for a str key
GetKey(v, key) ==
    IF IsDict(v)
    THEN IF v[2][key] = Absent THEN Raise("KeyError") ELSE v[2][key]
    ELSE Raise("TypeError")

\* v[n] for an int n >= 0
GetIndex(v, n) ==
    IF IsList(v)
    THEN IF n < Len(v[2]) THEN v[2][n + 1] ELSE Raise("IndexError")
    ELSE IF IsStr(v)
    THEN IF n < Len(v[2]) THEN PyStr(<<v[2][n + 1]>>) ELSE Raise("IndexError")
    ELSE IF IsDict(v) THEN Raise("KeyError")
    ELSE Raise("TypeError")

\* v.get(key)
DictGet(v, key) ==
    IF IsDict(v)
    THEN IF v[2][key] = Absent THEN None ELSE v[2][key]
    ELSE Raise("AttributeError")

\* bool(v)
Bool(v) ==
    CASE IsNone(v) -> FALSE
      [] IsInt(v) -> v[2] # 0
      [] IsStr(v) -> v[2] # <<>>
      [] IsList(v) -> v[2] # <<>>
      [] IsDict(v) -> \E k \in KeyNames : v[2][k] # Absent

RECURSIVE SetToSeq(_)
SetToSeq(S) ==
    IF S = {} THEN <<>>
    ELSE LET x == CHOOSE y \in S : TRUE IN <<x>> \o SetToSeq(S \ {x})

\* the items "for x in v" visits, or a raise
Iter(v) ==
    CASE IsList(v) -> v[2]
      [] IsStr(v) -> [i \in 1..Len(v[2]) |-> PyStr(<<v[2][i]>>)]
      [] IsDict(v) -> SetToSeq({KeyStr(k) : k \in {kk \in KeyNames : v[2][kk] # Absent}})
      [] OTHER -> Raise("TypeError")

----------------------------------------------------------------------------
(* _post_and_parse *)

MSG_ENCODE == PyStr(<<74, 83, 79, 78, 32534, 30721, 22833, 36133>>)
MSG_CONNECT == PyStr(<<36830, 25509, 65, 80, 73, 22833, 36133>>)
MSG_DECODE == PyStr(<<74, 83, 79, 78, 35299, 26512, 22833, 36133>>)
MSG_PARSE == PyStr(<<22238, 24212, 35299, 26512, 22833, 36133>>)

\* what one post comes to: json.dumps fails, requests.post fails,
\* raw_response.json() fails, or the body decodes to a value
EncodeFail == <<"encode_fail", 0>>
ConnectFail == <<"connect_fail", 0>>
DecodeFail == <<"decode_fail", 0>>
Decoded(v) == <<"decoded", v>>

\* detail parsers: the closure of _send_wechat, the closure of
\* _invite_to_wechat over stu_id, a parser that raises, and None
BatchParser == <<"batch", 0>>
InviteParser(stu_id) == <<"invite", stu_id>>
RaisingParser == <<"raising", 0>>

\* the error message taken from the last detail entry
_send_wechat_parser_last(detail) ==
    LET items == Iter(detail)
    IN  IF IsRaise(items) THEN items
        ELSE LET firsts == [i \in 1..Len(items) |-> GetIndex(items[i], 0)]
                 entry == GetIndex(detail, Len(items) - 1)
                 errmsg == IF IsRaise(entry) THEN entry ELSE GetIndex(entry, 1)
             IN  IF \E i \in 1..Len(firsts) : IsRaise(firsts[i])
                 THEN firsts[CHOOSE i \in 1..Len(firsts) : IsRaise(firsts[i])
                                 /\ \A j \in 1..(i - 1) : ~IsRaise(firsts[j])]
                 ELSE IF IsRaise(errmsg) THEN errmsg
                 ELSE PyTuple(errmsg, PyList(firsts))

\* _parser of _send_wechat
_send_wechat_parser(detail) ==
    LET items == Iter(detail)
    IN  IF IsRaise(items) THEN items
        ELSE LET firsts == [i \in 1..Len(items) |-> GetIndex(items[i], 0)]
                 entry == GetIndex(detail, 0)
                 errmsg == IF IsRaise(entry) THEN entry ELSE GetIndex(entry, 1)
             IN  IF \E i \in 1..Len(firsts) : IsRaise(firsts[i])
                 THEN firsts[CHOOSE i \in 1..Len(firsts) : IsRaise(firsts[i])
                                 /\ \A j \in 1..(i - 1) : ~IsRaise(firsts[j])]
                 ELSE IF IsRaise(errmsg) THEN errmsg
                 ELSE PyTuple(errmsg, PyList(firsts))

\* _parser of _invite_to_wechat
_invite_to_wechat_parser(detail, stu_id) == PyTuple(detail, PyList(<<stu_id>>))

\* detail_parser(detail)
CallParser(detail_parser, detail) ==
    CASE detail_parser = BatchParser -> _send_wechat_parser(detail)
      [] detail_parser[1] = "invite" -> _invite_to_wechat_parser(detail, detail_parser[2])
      [] detail_parser = RaisingParser -> Raise("Exception")
      [] IsNone(detail_parser) -> Raise("TypeError")

\* the body of the last try block: the interpretation of a decoded response
InterpretResponse(response, detail_parser) ==
    LET status == GetKey(response, "status")
        datas == GetKey(response, "data")
        detail == DictGet(datas, "detail")
        errmsg == GetKey(datas, "errMsg")
    IN  IF IsRaise(status) THEN status
        ELSE IF status = PyInt(200) THEN PyTuple(None, PyList(<<>>))
        ELSE IF IsRaise(datas) THEN datas
        ELSE IF IsRaise(detail) THEN detail
        ELSE IF Bool(detail)
        THEN IF IsNone(detail_parser) THEN Raise("AssertionError")
             ELSE CallParser(detail_parser, GetKey(datas, "detail"))
        ELSE IF IsRaise(errmsg) THEN errmsg
        ELSE PyTuple(errmsg, None)

\* the last try block without its except clause
_post_and_parse_uncaught(outcome, detail_parser) ==
    CASE outcome = EncodeFail -> PyTuple(MSG_ENCODE, None)
      [] outcome = ConnectFail -> PyTuple(MSG_CONNECT, None)
      [] outcome = DecodeFail -> PyTuple(MSG_DECODE, None)
      [] OTHER -> InterpretResponse(outcome[2], detail_parser)

_post_and_parse(outcome, detail_parser) ==
    CASE outcome = EncodeFail -> PyTuple(MSG_ENCODE, None)
      [] outcome = ConnectFail -> PyTuple(MSG_CONNECT, None)
      [] outcome = DecodeFail -> PyTuple(MSG_DECODE, None)
      [] OTHER ->
            LET r == InterpretResponse(outcome[2], detail_parser)
            IN  IF IsRaise(r) THEN PyTuple(MSG_PARSE, None) ELSE r

----------------------------------------------------------------------------
(* Runs of the request/response interpreter alone *)

\* entries of a detail list: [user, errmsg] pairs with users inside and
\* outside a request, an int user and a null message; a one-item entry, a
\* str entry and an int entry
EntryForms ==
    {PyList(<<S1, FAIL>>), PyList(<<S2, FAIL>>), PyList(<<S9, FAIL>>),
     PyList(<<PyInt(1), FAIL>>), PyList(<<S1, None>>),
     PyList(<<S1>>), AB, PyInt(7)}

DetailLists == {PyList(xs) : xs \in SeqsUpTo(EntryForms, MaxDetail)}

Details ==
    DetailLists \cup {Absent, None, AB, PyInt(5), Dict(Absent, Absent, Absent, BAD)}

Datas ==
    {Dict(Absent, Absent, d, e) : d \in Details, e \in {Absent, BAD, None}}
        \cup {Absent, None, PyList(<<>>)}

FewDatas == {Absent, Dict(Absent, Absent, PyList(<<PyList(<<S1, FAIL>>)>>), BAD)}

\* decoded bodies: the documented shape {status, data: {detail?, errMsg?}}
\* and bodies that depart from it
Responses ==
    {Dict(PyInt(400), d, Absent, Absent) : d \in Datas}
        \cup {Dict(st, d, Absent, Absent) : st \in {PyInt(200), Absent}, d \in FewDatas}
        \cup {None, PyList(<<>>)}

Outcomes == {EncodeFail, ConnectFail, DecodeFail} \cup {Decoded(r) : r \in Responses}

Parsers == {BatchParser, InviteParser(S1), RaisingParser, None}

InitParse ==
    /\ config \in [receivers : {None}, blacklist : {None}, send_batch : {1},
                   multithread : {FALSE}, retry : {FALSE}]
    /\ fpc = "off" /\ fin = <<>> /\ fout = <<>> /\ fout2 = <<>>
    /\ ppc = "start"
    /\ pin \in [outcome : Outcomes, detail_parser : Parsers]
    /\ pout = None
    /\ call = [state |-> "off"] /\ frame = <<>> /\ jobs = {}
    /\ wpc = "off" /\ win = <<>>
    /\ lpc = "off" /\ lin = <<>> /\ lout = None
    /\ now = 0

\* _post_and_parse(post_url, post_data, timeout, detail_parser)
PostAndParse ==
    /\ ppc = "start"
    /\ pout' = _post_and_parse(pin.outcome, pin.detail_parser)
    /\ ppc' = "done"
    /\ UNCHANGED <<config, filterVars, pin, flowVars, wrapVars, logVars, now>>

NextParse == PostAndParse

SpecParse == InitParse /\ [][NextParse]_vars

----------------------------------------------------------------------------
(* Claims about the request/response interpreter *)

IsDecoded == pin.outcome[1] = "decoded"
Body == pin.outcome[2]

Status200 == IsDict(Body) /\ Body[2].status = PyInt(200)
\* a status other than 200 and a data dict
HasData == IsDict(Body) /\ Body[2].status \notin {Absent, PyInt(200)} /\ IsDict(Body[2].data)
DetailOf == Body[2].data[2].detail
ErrMsgOf == Body[2].data[2].errMsg
NonEmptyDetail == HasData /\ DetailOf # Absent /\ Bool(DetailOf)
\* a detail the batch parser can read: a list of entries that are lists or
\* strs with a first component, the first entry with a second one too
ReadableDetail ==
    /\ NonEmptyDetail /\ IsList(DetailOf)
    /\ \A i \in 1..Len(DetailOf[2]) :
        /\ IsList(DetailOf[2][i]) \/ IsStr(DetailOf[2][i])
        /\ Len(DetailOf[2][i][2]) >= (IF i = 1 THEN 2 ELSE 1)
Component(entry, n) == IF IsStr(entry) THEN PyStr(<<entry[2][n]>>) ELSE entry[2][n]
FirstComponents == [i \in 1..Len(DetailOf[2]) |-> Component(DetailOf[2][i], 1)]

\* C2: _post_and_parse returns a pair (message or None, list or None) for
\* every outcome of the post, every decoded body and every detail parser,
\* also one that raises and a missing one; an encode, a connection and a
\* decode failure give three different messages, each with retry list None.
C2_NeverThrows ==
    ppc = "done" =>
        /\ pout[1] = "tuple"
        /\ IsNone(pout[2][2]) \/ IsList(pout[2][2])
        /\ ~IsRaise(pout[2][1])
        /\ (pin.outcome = EncodeFail => pout = PyTuple(MSG_ENCODE, None))
        /\ (pin.outcome = ConnectFail => pout = PyTuple(MSG_CONNECT, None))
        /\ (pin.outcome = DecodeFail => pout = PyTuple(MSG_DECODE, None))
        /\ Cardinality({MSG_ENCODE, MSG_CONNECT, MSG_DECODE}) = 3

C2_Witness ==
    /\ ppc = "done"
    /\ IsDecoded /\ NonEmptyDetail
    /\ pin.detail_parser \in {RaisingParser, None}
    /\ pout = PyTuple(MSG_PARSE, None)

\* C3 as stated: a decoded response gives one of three results: (None, [])
\* for status 200, else the parser's result for a non-empty detail (for
\* the batch parser the first entry's message and all first components),
\* else (data.errMsg, None).
C3_ThreeResults ==
    (ppc = "done" /\ IsDecoded) =>
        IF Status200 THEN pout = PyTuple(None, PyList(<<>>))
        ELSE IF NonEmptyDetail
        THEN pin.detail_parser = BatchParser =>
                pout = PyTuple(Component(DetailOf[2][1], 2), PyList(FirstComponents))
        ELSE HasData /\ ErrMsgOf # Absent /\ pout = PyTuple(ErrMsgOf, None)

\* C3 amended: a decoded response gives one of four results: (None, []) for
\* status 200; else, for a data dict with a non-empty detail, the parser's
\* result (batch parser and readable detail: the first entry's message and
\* the first components in order; invite parser: the detail and the
\* recipient); else, for a data dict with an errMsg, (errMsg, None); and
\* ("回应解析失败", None) for every other body, an unreadable detail, a
\* raising parser and a missing parser.
C3_FourResults ==
    (ppc = "done" /\ IsDecoded) =>
        IF Status200 THEN pout = PyTuple(None, PyList(<<>>))
        ELSE IF NonEmptyDetail
        THEN CASE pin.detail_parser = BatchParser /\ ReadableDetail ->
                    pout = PyTuple(Component(DetailOf[2][1], 2), PyList(FirstComponents))
               [] pin.detail_parser = InviteParser(S1) ->
                    pout = PyTuple(DetailOf, PyList(<<S1>>))
               [] OTHER -> pout = PyTuple(MSG_PARSE, None)
        ELSE IF HasData /\ ErrMsgOf # Absent THEN pout = PyTuple(ErrMsgOf, None)
        ELSE pout = PyTuple(MSG_PARSE, None)

Example200 == Decoded(Dict(PyInt(200), Absent, Absent, Absent))
ExampleBad == Decoded(Dict(PyInt(400), Dict(Absent, Absent, Absent, BAD), Absent, Absent))
ExampleDetail ==
    Decoded(Dict(PyInt(400),
                 Dict(Absent, Absent, PyList(<<PyList(<<S1, FAIL>>), PyList(<<S2, FAIL>>)>>), Absent),
                 Absent, Absent))

\* C3, the examples: {status:200} gives (None, []), {status:400,
\* data:{errMsg:"bad"}} gives ("bad", None), and detail
\* [["1","fail"],["2","fail"]] gives ("fail", ["1","2"]) with the batch parser.
C3_Examples ==
    ppc = "done" =>
        /\ (pin.outcome = Example200 => pout = PyTuple(None, PyList(<<>>)))
        /\ (pin.outcome = ExampleBad => pout = PyTuple(BAD, None))
        /\ (pin.outcome = ExampleDetail /\ pin.detail_parser = BatchParser
                => pout = PyTuple(FAIL, PyList(<<S1, S2>>)))

C3_Amended == C3_FourResults /\ C3_Examples

C3_Witness ==
    /\ ppc = "done"
    /\ pin.outcome = ExampleDetail /\ pin.detail_parser = BatchParser
    /\ pout = PyTuple(FAIL, PyList(<<S1, S2>>))

----------------------------------------------------------------------------
(* _log_users *)

RECURSIVE Join(_, _)
\* sep.join(items): a TypeError when an item is not a str
Join(items, sep) ==
    IF Len(items) = 0 THEN PyStr(<<>>)
    ELSE IF ~IsStr(items[1]) THEN Raise("TypeError")
    ELSE IF Len(items) = 1 THEN items[1]
    ELSE LET rest == Join(Tail(items), sep)
         IN  IF IsRaise(rest) THEN rest ELSE PyStr(items[1][2] \o sep \o rest[2])

COMMA == <<44, 32>>                     \* ", "
ELLIPSIS == PyStr(<<46, 46, 46>>)       \* "..."
LogFull == 10                           \* lists up to this length are shown whole
LogEnds == 3                            \* entries shown at each end of a longer list

\* a list of exactly ten users is shortened too
_log_users_short(users) ==
    IF Len(users) < LogFull THEN Join(users, COMMA)
    ELSE LET user_display == SubSeq(users, 1, LogEnds) \o <<ELLIPSIS>>
                                \o SubSeq(users, Len(users) - LogEnds + 1, Len(users))
             shown == Join(user_display, COMMA)
         IN  IF IsRaise(shown) THEN shown
             ELSE PyStr(shown[2] \o <<31561>> \o DecDigits(Len(users)) \o <<29992, 25143>>)

_log_users(users) ==
    IF Len(users) <= LogFull THEN Join(users, COMMA)
    ELSE LET user_display == SubSeq(users, 1, LogEnds) \o <<ELLIPSIS>>
                                \o SubSeq(users, Len(users) - LogEnds + 1, Len(users))
             shown == Join(user_display, COMMA)
         IN  IF IsRaise(shown) THEN shown
             ELSE PyStr(shown[2] \o <<31561>> \o DecDigits(Len(users)) \o <<29992, 25143>>)

\* lists of user ids as the senders hand them to _log_users
InitLog ==
    /\ config \in [receivers : {None}, blacklist : {None}, send_batch : {1},
                   multithread : {FALSE}, retry : {FALSE}]
    /\ fpc = "off" /\ fin = <<>> /\ fout = <<>> /\ fout2 = <<>>
    /\ ppc = "off" /\ pin = <<>> /\ pout = None
    /\ call = [state |-> "off"] /\ frame = <<>> /\ jobs = {}
    /\ wpc = "off" /\ win = <<>>
    /\ now = 0
    /\ lpc = "start"
    /\ lin \in SeqsUpTo({S1, S2}, MaxLogged)
    /\ lout = None

\* _log_users(users)
LogUsers ==
    /\ lpc = "start"
    /\ lout' = _log_users(lin)
    /\ lpc' = "done"
    /\ UNCHANGED <<config, filterVars, parseVars, flowVars, wrapVars, lin, now>>

NextLog == LogUsers

SpecLog == InitLog /\ [][NextLog]_vars

RECURSIVE Split(_)
\* the pieces of a text between its ", " separators
Split(cs) ==
    LET at == {k \in 1..(Len(cs) - 1) : cs[k] = 44 /\ cs[k + 1] = 32}
    IN  IF at = {} THEN <<cs>>
        ELSE LET k == CHOOSE k \in at : \A j \in at : k <= j
             IN  <<SubSeq(cs, 1, k - 1)>> \o Split(SubSeq(cs, k + 2, Len(cs)))

\* C20: _log_users shows a list of at most 10 users whole and in order,
\* separated by ", "; of a longer list it shows the first three users, the
\* marker "...", the last three users and then the count between the two
\* fixed texts, "11" for 11 users: six users at most.
C20_Rendering ==
    lpc = "done" =>
        LET n == Len(lin)
            parts == Split(lout[2])
        IN  /\ IsStr(lout)
            /\ n = 0 => lout = PyStr(<<>>)
            /\ n \in 1..10 => parts = [k \in 1..n |-> lin[k][2]]
            /\ n > 10 =>
                    /\ Len(parts) = 7
                    /\ \A k \in 1..3 : parts[k] = lin[k][2]
                    /\ parts[4] = <<46, 46, 46>>
                    /\ parts[5] = lin[n - 2][2] /\ parts[6] = lin[n - 1][2]
                    /\ parts[7] = lin[n][2] \o <<31561>> \o DecDigits(n) \o <<29992, 25143>>
                    /\ n = 11 => SubSeq(parts[7], Len(parts[7]) - 3, Len(parts[7]))
                                    = <<49, 49, 29992, 25143>>

C20_Witness ==
    /\ lpc = "done"
    /\ lin = <<S1, S2, S1, S1, S1, S1, S1, S1, S2, S2, S1>>
    /\ lout = PyStr(<<49, 44, 32, 50, 44, 32, 49, 44, 32, 46, 46, 46, 44, 32,
                      50, 44, 32, 50, 44, 32, 49, 31561, 49, 49, 29992, 25143>>)

----------------------------------------------------------------------------
(* _send_wechat and _invite_to_wechat: one frame per invocation *)

Threads == {"caller", "worker"}

PyTrue == <<"bool", TRUE>>
Secret(text) == <<"secret", text>>      \* CONFIG.hasher.encode(text)
Full(path) == <<"full", path>>          \* build_full_url(path)
Path(p) == <<"path", p>>
DEFAULT_URL == Full(Path("/"))
BTN_DETAIL == PyStr(<<35814, 24773>>)   \* "详情"
BTN_LOGIN == PyStr(<<30331, 24405>>)    \* "登录"

LogEntry(level, line) == [level |-> level, line |-> line]

IdleFrame == [pc |-> "idle"]

\* what an attempt reported: success (no error message), a hard failure
\* (no retry list) or a partial failure (both)
Kind(r) ==
    IF IsNone(r[2][1]) THEN "success"
    ELSE IF IsNone(r[2][2]) THEN "hard"
    ELSE "partial"

\* _send_wechat up to its loop: post_data is built, nothing is posted yet
SendFrame(users, message, card, url, btntxt, retry_times, filtered) ==
    [fn |-> "_send_wechat",
     pc |-> IF retry_times > 0 THEN "loop" ELSE "done",
     users |-> users,
     post_data |-> [touser |-> users, content |-> message, toall |-> PyTrue,
                    secret |-> Secret(message),
                    card |-> IF card THEN PyTrue ELSE Absent,
                    url |-> IF card /\ ~IsNone(url) THEN url ELSE Absent,
                    btntxt |-> IF card /\ ~IsNone(btntxt) THEN btntxt ELSE Absent,
                    user |-> Absent],
     detail_parser |-> BatchParser,
     retry_times |-> retry_times,
     i |-> 0,
     posts |-> 0,           \* requests.post calls made by this invocation
     retrys |-> Absent,     \* the local retrys, unbound before the first attempt
     kinds |-> <<>>,        \* what each attempt reported
     log |-> <<>>,          \* what this invocation logged
     got200 |-> FALSE,      \* a post of this invocation was answered with status 200
     filtered |-> filtered] \* the filtered recipients of the send_wechat call

\* _invite_to_wechat up to its loop
InviteFrame(stu_id, retry_times) ==
    [fn |-> "_invite_to_wechat",
     pc |-> IF retry_times > 0 THEN "loop" ELSE "done",
     users |-> <<stu_id>>,
     post_data |-> [touser |-> Absent, content |-> Absent, toall |-> Absent,
                    secret |-> Secret(stu_id), card |-> Absent, url |-> Absent,
                    btntxt |-> Absent, user |-> stu_id],
     detail_parser |-> InviteParser(stu_id),
     retry_times |-> retry_times,
     i |-> 0,
     posts |-> 0,
     retrys |-> Absent,
     kinds |-> <<>>,
     log |-> <<>>,
     got200 |-> FALSE,
     filtered |-> <<stu_id>>]

\* the loop makes one round more than retry_times
NextRound_extra(f) ==
    [f EXCEPT !.i = f.i + 1,
              !.pc = IF f.i + 1 <= f.retry_times THEN "loop" ELSE "done"]

\* the next iteration of "for i in range(retry_times)", or the loop's end
NextRound(f) ==
    [f EXCEPT !.i = f.i + 1,
              !.pc = IF f.i + 1 < f.retry_times THEN "loop" ELSE "done"]

\* the loop goes on after a hard failure
_send_wechat_after_nobreak(f, r) ==
    LET errmsg == r[2][1]
        retrys == r[2][2]
        seen == [f EXCEPT !.kinds = Append(f.kinds, Kind(r)), !.retrys = retrys]
        shown == _log_users(f.users)
    IN  IF IsNone(errmsg)
        THEN IF IsRaise(shown) THEN [seen EXCEPT !.pc = "raised"]
             ELSE [seen EXCEPT !.pc = "done",
                               !.log = Append(f.log, LogEntry("info", 148))]
        ELSE IF IsNone(retrys)
        THEN IF IsRaise(shown) THEN [seen EXCEPT !.pc = "raised"]
             ELSE NextRound([seen EXCEPT !.log = Append(f.log, LogEntry("warning", 151))])
        ELSE LET narrowed == [seen EXCEPT !.post_data.touser = retrys[2]]
                 failed == _log_users(retrys[2])
             IN  IF IsRaise(shown) \/ IsRaise(failed)
                 THEN [narrowed EXCEPT !.pc = "raised"]
                 ELSE NextRound([narrowed EXCEPT
                                    !.log = Append(f.log, LogEntry("warning", 154))])

\* every attempt posts to the whole batch: touser is never narrowed
_send_wechat_after_whole(f, r) ==
    LET errmsg == r[2][1]
        retrys == r[2][2]
        seen == [f EXCEPT !.kinds = Append(f.kinds, Kind(r)), !.retrys = retrys]
        shown == _log_users(f.users)
    IN  IF IsNone(errmsg)
        THEN IF IsRaise(shown) THEN [seen EXCEPT !.pc = "raised"]
             ELSE [seen EXCEPT !.pc = "done",
                               !.log = Append(f.log, LogEntry("info", 148))]
        ELSE IF IsNone(retrys)
        THEN IF IsRaise(shown) THEN [seen EXCEPT !.pc = "raised"]
             ELSE [seen EXCEPT !.pc = "done",
                               !.log = Append(f.log, LogEntry("warning", 151))]
        ELSE LET failed == _log_users(retrys[2])
             IN  IF IsRaise(shown) \/ IsRaise(failed)
                 THEN [seen EXCEPT !.pc = "raised"]
                 ELSE NextRound([seen EXCEPT
                                    !.log = Append(f.log, LogEntry("warning", 154))])

\* the rest of one iteration of _send_wechat's loop, r the result of
\* _post_and_parse
_send_wechat_after(f, r) ==
    LET errmsg == r[2][1]
        retrys == r[2][2]
        seen == [f EXCEPT !.kinds = Append(f.kinds, Kind(r)), !.retrys = retrys]
        shown == _log_users(f.users)
    IN  IF IsNone(errmsg)
        THEN IF IsRaise(shown) THEN [seen EXCEPT !.pc = "raised"]
             ELSE [seen EXCEPT !.pc = "done",
                               !.log = Append(f.log, LogEntry("info", 148))]
        ELSE IF IsNone(retrys)
        THEN IF IsRaise(shown) THEN [seen EXCEPT !.pc = "raised"]
             ELSE [seen EXCEPT !.pc = "done",
                               !.log = Append(f.log, LogEntry("warning", 151))]
        ELSE LET narrowed == [seen EXCEPT !.post_data.touser = retrys[2]]
                 failed == _log_users(retrys[2])
             IN  IF IsRaise(shown) \/ IsRaise(failed)
                 THEN [narrowed EXCEPT !.pc = "raised"]
                 ELSE NextRound([narrowed EXCEPT
                                    !.log = Append(f.log, LogEntry("warning", 154))])

\* the loop is left on a hard failure before the warning is logged
_invite_to_wechat_after_quiet(f, r) ==
    LET errmsg == r[2][1]
        retrys == r[2][2]
        seen == [f EXCEPT !.kinds = Append(f.kinds, Kind(r)), !.retrys = retrys]
    IN  IF IsNone(errmsg)
        THEN [seen EXCEPT !.pc = "done", !.log = Append(f.log, LogEntry("info", 236))]
        ELSE IF IsNone(retrys) THEN [seen EXCEPT !.pc = "done"]
        ELSE NextRound([seen EXCEPT !.log = Append(f.log, LogEntry("warning", 238))])

\* the rest of one iteration of _invite_to_wechat's loop
_invite_to_wechat_after(f, r) ==
    LET errmsg == r[2][1]
        retrys == r[2][2]
        seen == [f EXCEPT !.kinds = Append(f.kinds, Kind(r)), !.retrys = retrys]
    IN  IF IsNone(errmsg)
        THEN [seen EXCEPT !.pc = "done", !.log = Append(f.log, LogEntry("info", 236))]
        ELSE LET warned == [seen EXCEPT !.log = Append(f.log, LogEntry("warning", 238))]
             IN  IF IsNone(retrys) THEN [warned EXCEPT !.pc = "done"]
                 ELSE NextRound(warned)

AfterAttempt(f, r) ==
    IF f.fn = "_send_wechat" THEN _send_wechat_after(f, r)
    ELSE _invite_to_wechat_after(f, r)

----------------------------------------------------------------------------
(* _get_caller and the public entry points *)

\* the wrapper is returned whenever the caller asks for it
_get_caller_asked(multithread) == multithread

\* whether _get_caller returns the scheduling wrapper rather than func itself
_get_caller(multithread) == multithread /\ config.multithread

Datetime(t) == <<"datetime", t>>        \* a point in time, in seconds
Timedelta(d) == <<"timedelta", d>>      \* a duration, in seconds
DefaultDelay == 5                       \* timedelta(seconds=5)

\* the delay is dropped: the job is due at once
_next_run_nodelay(next_run_time, clock) ==
    IF next_run_time[1] = "datetime" THEN next_run_time
    ELSE IF next_run_time[1] = "timedelta" THEN Datetime(clock + next_run_time[2])
    ELSE Datetime(clock)

\* _next_run as the wrapper computes it when it is called at time clock
_next_run(next_run_time, clock) ==
    IF next_run_time[1] = "datetime" THEN next_run_time
    ELSE IF next_run_time[1] = "timedelta" THEN Datetime(clock + next_run_time[2])
    ELSE Datetime(clock + DefaultDelay)

\* the job scheduler.add_job registers for a call of the wrapper
Job(fn, users, message, card, url, btntxt, retry_times, filtered, next_run_time) ==
    [func |-> fn, trigger |-> "date", users |-> users, message |-> message,
     card |-> card, url |-> url, btntxt |-> btntxt, retry_times |-> retry_times,
     filtered |-> filtered, next_run_time |-> next_run_time]

IdleCall == [state |-> "idle"]

Min(a, b) == IF a < b THEN a ELSE b
Max(a, b) == IF a < b THEN b ELSE a

\* send_wechat without the test for an empty recipient list
send_wechat_nocheck(fn, users, message, card, url, btntxt, default, multithread, retry_times) ==
    LET filtered == _get_available_users(users, config)
    IN  [fn |-> fn,
         state |-> IF filtered = <<>> THEN "returned" ELSE "dispatch",
         users |-> filtered,
         message |-> message,
         card |-> card,
         url |-> IF card /\ ~IsNone(url) THEN Full(url)
                 ELSE IF card /\ default THEN DEFAULT_URL
                 ELSE url,
         btntxt |-> IF card /\ IsNone(btntxt) /\ default THEN BTN_DETAIL ELSE btntxt,
         retry_times |-> IF ~config.retry THEN 1 ELSE retry_times,
         multithread |-> multithread,
         deferred |-> _get_caller(multithread),
         i |-> 0,
         dispatched |-> <<>>,
         posts |-> 0,
         log |-> <<>>]

\* send_wechat with the caller's retry_times kept whatever CONFIG.retry says
send_wechat_keepretry(fn, users, message, card, url, btntxt, default, multithread, retry_times) ==
    LET filtered == _get_available_users(users, config)
    IN  IF filtered = <<>>
        THEN [fn |-> fn, state |-> "returned", users |-> filtered, message |-> message,
              card |-> card, url |-> url, btntxt |-> btntxt,
              retry_times |-> retry_times, multithread |-> multithread,
              deferred |-> FALSE, i |-> 0,
              dispatched |-> <<>>, posts |-> 0,
              log |-> <<LogEntry("warning", 186)>>]
        ELSE [fn |-> fn,
              state |-> "dispatch",
              users |-> filtered,
              message |-> message,
              card |-> card,
              url |-> IF card /\ ~IsNone(url) THEN Full(url)
                      ELSE IF card /\ default THEN DEFAULT_URL
                      ELSE url,
              btntxt |-> IF card /\ IsNone(btntxt) /\ default THEN BTN_DETAIL ELSE btntxt,
              retry_times |-> retry_times,
              multithread |-> multithread,
              deferred |-> _get_caller(multithread),
              i |-> 0,
              dispatched |-> <<>>,
              posts |-> 0,          \* requests.post calls made during this call
              log |-> <<>>]

\* send_wechat up to its dispatch loop (lines 184-198)
send_wechat(fn, users, message, card, url, btntxt, default, multithread, retry_times) ==
    LET filtered == _get_available_users(users, config)
    IN  IF filtered = <<>>
        THEN [fn |-> fn, state |-> "returned", users |-> filtered, message |-> message,
              card |-> card, url |-> url, btntxt |-> btntxt,
              retry_times |-> retry_times, multithread |-> multithread,
              deferred |-> FALSE, i |-> 0,
              dispatched |-> <<>>, posts |-> 0,
              log |-> <<LogEntry("warning", 186)>>]
        ELSE [fn |-> fn,
              state |-> "dispatch",
              users |-> filtered,
              message |-> message,
              card |-> card,
              url |-> IF card /\ ~IsNone(url) THEN Full(url)
                      ELSE IF card /\ default THEN DEFAULT_URL
                      ELSE url,
              btntxt |-> IF card /\ IsNone(btntxt) /\ default THEN BTN_DETAIL ELSE btntxt,
              retry_times |-> IF ~config.retry THEN 1 ELSE retry_times,
              multithread |-> multithread,
              deferred |-> _get_caller(multithread),
              i |-> 0,
              dispatched |-> <<>>,
              posts |-> 0,          \* requests.post calls made during this call
              log |-> <<>>]

\* the dispatch loop moves to the next batch, or send_wechat returns
NextBatch(c) ==
    [c EXCEPT !.i = c.i + config.send_batch,
              !.state = IF c.i + config.send_batch < Len(c.users)
                        THEN "dispatch" ELSE "returned"]

\* users[i : i + CONFIG.send_batch]
Batch(c) == SubSeq(c.users, c.i + 1, Min(c.i + config.send_batch, Len(c.users)))

----------------------------------------------------------------------------
(* The module at work: public calls, the scheduler's worker, the server *)

MSG == <<"text", 0>>                    \* a message text
VERIFY_MSG == <<"verify", 0>>           \* the text send_verify_code builds
FORGETPW == Path("/forgetpw/")
NOURL == Path("")

\* identifiers callers pass
Ids == {PyInt(1), PyInt(2), S10}

\* answers of the server to one post, json.dumps having succeeded
FlowDetails ==
    {PyList(<<e>>) : e \in {PyList(<<S1, FAIL>>), PyList(<<S9, FAIL>>),
                            PyList(<<PyInt(1), FAIL>>), PyList(<<S1, None>>)}}
        \cup {PyList(<<PyList(<<S1, FAIL>>), PyList(<<S2, FAIL>>)>>), AB}

FlowResponses ==
    {Dict(PyInt(200), Absent, Absent, Absent), Dict(PyInt(400), Absent, Absent, Absent),
     Dict(PyInt(400), Dict(Absent, Absent, Absent, BAD), Absent, Absent), None}
        \cup {Dict(PyInt(400), Dict(Absent, Absent, d, Absent), Absent, Absent) : d \in FlowDetails}

FlowOutcomes == {ConnectFail, DecodeFail} \cup {Decoded(r) : r \in FlowResponses}

FlowConfigs ==
    {[receivers |-> f[1], blacklist |-> f[2], send_batch |-> b, multithread |-> m, retry |-> r] :
        f \in {<<None, PySet({})>>, <<PySet({S1, S2}), PySet({S2})>>},
        b \in 1..MaxBatch, m \in BOOLEAN, r \in BOOLEAN}

Init ==
    /\ config \in FlowConfigs
    /\ fpc = "off" /\ fin = <<>> /\ fout = <<>> /\ fout2 = <<>>
    /\ ppc = "off" /\ pin = <<>> /\ pout = None
    /\ wpc = "off" /\ win = <<>>
    /\ lpc = "off" /\ lin = <<>> /\ lout = None
    /\ now = 0
    /\ call = IdleCall
    /\ frame = [t \in Threads |-> IdleFrame]
    /\ jobs = {}

\* no public call is running and the scheduler has run every job
Quiet ==
    /\ now < MaxNow
    /\ call.state = "idle"
    /\ jobs = {}
    /\ \A t \in Threads : frame[t].pc = "idle"

\* a caller calls send_wechat
SendWechat ==
    /\ Quiet
    /\ \E users \in SeqsUpTo(Ids, MaxUsers), card \in BOOLEAN, url \in {None, FORGETPW},
          btntxt \in {None, BTN_LOGIN}, default \in BOOLEAN,
          multithread \in BOOLEAN, retry_times \in 0..MaxRetry :
            call' = send_wechat("send_wechat", users, MSG, card, url, btntxt, default,
                                multithread, retry_times)
    /\ UNCHANGED <<config, filterVars, parseVars, wrapVars, logVars, frame, jobs, now>>

\* a caller calls send_verify_code
SendVerifyCode ==
    /\ Quiet
    /\ \E stu_id \in Ids, url \in {FORGETPW, NOURL} :
            call' = IF url = NOURL
                    THEN send_wechat("send_verify_code", <<stu_id>>, VERIFY_MSG, TRUE,
                                     None, None, TRUE, TRUE, 1)
                    ELSE send_wechat("send_verify_code", <<stu_id>>, VERIFY_MSG, TRUE,
                                     Full(url), BTN_LOGIN, TRUE, TRUE, 1)
    /\ UNCHANGED <<config, filterVars, parseVars, wrapVars, logVars, frame, jobs, now>>

\* a caller calls invite_to_wechat: the wrapper registers a job, or
\* _invite_to_wechat starts inline
InviteToWechat ==
    /\ Quiet
    /\ \E stu_id \in Ids, retry_times \in 0..MaxRetry, multithread \in BOOLEAN :
        LET c == [fn |-> "invite_to_wechat", state |-> "idle", users |-> <<Str(stu_id)>>, message |-> None,
                  card |-> FALSE, url |-> None, btntxt |-> None,
                  retry_times |-> retry_times, multithread |-> multithread,
                  deferred |-> _get_caller(multithread),
                  i |-> 0, dispatched |-> <<>>, posts |-> 0, log |-> <<>>]
        IN  IF c.deferred
            THEN /\ jobs' = jobs \cup {Job("_invite_to_wechat", c.users, None, FALSE, None,
                                           None, retry_times, c.users,
                                           _next_run(None, now))}
                 /\ call' = [c EXCEPT !.state = "returned"]
                 /\ frame' = frame
            ELSE /\ frame' = [frame EXCEPT !["caller"] = InviteFrame(Str(stu_id), retry_times)]
                 /\ call' = [c EXCEPT !.state = "in_call"]
                 /\ jobs' = jobs
    /\ UNCHANGED <<config, filterVars, parseVars, wrapVars, logVars, now>>

\* one iteration of send_wechat's loop: the wrapper registers a job for the
\* batch, or _send_wechat starts inline
Dispatch ==
    /\ call.state = "dispatch"
    /\ LET c == [call EXCEPT !.dispatched = Append(call.dispatched, Batch(call))]
       IN  IF call.deferred
           THEN /\ jobs' = jobs \cup {Job("_send_wechat", Batch(call), call.message, call.card,
                                          call.url, call.btntxt, call.retry_times, call.users,
                                          _next_run(None, now))}
                /\ call' = NextBatch(c)
                /\ frame' = frame
           ELSE /\ frame' = [frame EXCEPT !["caller"] =
                                SendFrame(Batch(call), call.message, call.card, call.url,
                                          call.btntxt, call.retry_times, call.users)]
                /\ call' = [c EXCEPT !.state = "in_call"]
                /\ jobs' = jobs
    /\ UNCHANGED <<config, filterVars, parseVars, wrapVars, logVars, now>>

\* the scheduler runs a job on its worker thread, not before the job's time
RunJob ==
    /\ frame["worker"].pc = "idle"
    /\ \E job \in jobs :
        /\ jobs' = jobs \ {job}
        /\ now' = Max(now, job.next_run_time[2])
        /\ frame' = [frame EXCEPT !["worker"] =
                        IF job.func = "_send_wechat"
                        THEN SendFrame(job.users, job.message, job.card, job.url, job.btntxt,
                                       job.retry_times, job.filtered)
                        ELSE InviteFrame(job.users[1], job.retry_times)]
    /\ UNCHANGED <<config, filterVars, parseVars, wrapVars, logVars, call>>

\* _post_and_parse up to requests.post: json.dumps fails and the iteration
\* ends with that result, or the request goes out
Post(t) ==
    /\ frame[t].pc = "loop"
    /\ \/ /\ frame' = [frame EXCEPT ![t] =
                        AfterAttempt(frame[t], _post_and_parse(EncodeFail, frame[t].detail_parser))]
          /\ call' = call
       \/ /\ frame' = [frame EXCEPT ![t].pc = "posted", ![t].posts = frame[t].posts + 1]
          /\ call' = IF t = "caller" THEN [call EXCEPT !.posts = call.posts + 1] ELSE call
    /\ UNCHANGED <<config, filterVars, parseVars, wrapVars, logVars, jobs, now>>

\* the post was answered with a JSON object whose status is 200
Is200(outcome) ==
    outcome[1] = "decoded" /\ IsDict(outcome[2]) /\ outcome[2][2].status = PyInt(200)

\* the post comes back: the rest of _post_and_parse and of the iteration
Respond(t) ==
    /\ frame[t].pc = "posted"
    /\ \E outcome \in FlowOutcomes :
        frame' = [frame EXCEPT ![t] =
                    [AfterAttempt(frame[t], _post_and_parse(outcome, frame[t].detail_parser))
                        EXCEPT !.got200 = frame[t].got200 \/ Is200(outcome)]]
    /\ UNCHANGED <<config, filterVars, parseVars, wrapVars, logVars, call, jobs, now>>

\* the sender returns or raises: to the public function on the calling
\* thread, to the scheduler on the worker
Return(t) ==
    /\ frame[t].pc \in {"done", "raised"}
    /\ frame' = [frame EXCEPT ![t] = IdleFrame]
    /\ call' = IF t = "worker" THEN call
               ELSE IF frame[t].pc = "raised" THEN [call EXCEPT !.state = "raised"]
               ELSE IF call.fn = "invite_to_wechat" THEN [call EXCEPT !.state = "returned"]
               ELSE NextBatch(call)
    /\ UNCHANGED <<config, filterVars, parseVars, wrapVars, logVars, jobs, now>>

\* the public function has returned or raised: its caller goes on
CallerGoesOn ==
    /\ call.state \in {"returned", "raised"}
    /\ call' = IdleCall
    /\ UNCHANGED <<config, filterVars, parseVars, wrapVars, logVars, frame, jobs, now>>

Next ==
    \/ SendWechat
    \/ SendVerifyCode
    \/ InviteToWechat
    \/ Dispatch
    \/ RunJob
    \/ \E t \in Threads : Post(t)
    \/ \E t \in Threads : Respond(t)
    \/ \E t \in Threads : Return(t)
    \/ CallerGoesOn

Spec == Init /\ [][Next]_vars

----------------------------------------------------------------------------
(* The wrapper alone: _get_caller(func, multithread, next_run_time)(...) *)

\* next_run_time as _get_caller accepts it
NextRunTimes ==
    {None} \cup {Datetime(t) : t \in 0..MaxNow} \cup {Timedelta(d) : d \in 0..MaxDelta}

WrapInputs ==
    [func : {"_send_wechat", "_invite_to_wechat"}, multithread : BOOLEAN,
     next_run_time : NextRunTimes, users : {<<S1>>, <<S1, S2>>}, retry_times : {1, MaxRetry}]

InitCaller ==
    /\ config \in {c \in FlowConfigs : c.receivers = None /\ c.send_batch = 1 /\ c.retry}
    /\ fpc = "off" /\ fin = <<>> /\ fout = <<>> /\ fout2 = <<>>
    /\ ppc = "off" /\ pin = <<>> /\ pout = None
    /\ lpc = "off" /\ lin = <<>> /\ lout = None
    /\ call = [state |-> "off"]
    /\ frame = [t \in Threads |-> IdleFrame]
    /\ jobs = {}
    /\ now \in 0..MaxNow
    /\ wpc = "ready"
    /\ win \in WrapInputs

\* what _get_caller returned is called at time now: the wrapper registers a
\* job, or func itself starts on the calling thread
CallWrapper ==
    /\ wpc = "ready"
    /\ wpc' = "called"
    /\ IF _get_caller(win.multithread)
       THEN /\ jobs' = jobs \cup {Job(win.func, win.users, MSG, FALSE, None, None,
                                      win.retry_times, win.users,
                                      _next_run(win.next_run_time, now))}
            /\ frame' = frame
       ELSE /\ frame' = [frame EXCEPT !["caller"] =
                            IF win.func = "_send_wechat"
                            THEN SendFrame(win.users, MSG, FALSE, None, None,
                                           win.retry_times, win.users)
                            ELSE InviteFrame(win.users[1], win.retry_times)]
            /\ jobs' = jobs
    /\ UNCHANGED <<config, filterVars, parseVars, logVars, call, win, now>>

NextCaller == CallWrapper

SpecCaller == InitCaller /\ [][NextCaller]_vars

----------------------------------------------------------------------------
(* Synchronous calls alone, each step of the calling thread eventually taken *)

\* CONFIG.multithread off: every call runs on the calling thread
InitSync == Init /\ ~config.multithread

NextSync ==
    \/ SendWechat
    \/ SendVerifyCode
    \/ Dispatch
    \/ Post("caller")
    \/ Respond("caller")
    \/ Return("caller")
    \/ CallerGoesOn

\* the calling thread keeps running, and every post returns or times out
SpecSync ==
    /\ InitSync /\ [][NextSync]_vars
    /\ WF_vars(Dispatch) /\ WF_vars(Post("caller"))
    /\ WF_vars(Respond("caller")) /\ WF_vars(Return("caller"))

----------------------------------------------------------------------------
(* Claims about the senders and the public entry points *)

Last(xs) == xs[Len(xs)]

RECURSIVE Concat(_)
Concat(lists) == IF lists = <<>> THEN <<>> ELSE lists[1] \o Concat(Tail(lists))

\* the sender on thread t has ended, by returning or by raising
Ended(t) == frame[t].pc \in {"done", "raised"}
\* the sender on thread t runs or has ended
Active(t) == frame[t].pc # "idle"
AllPartial(f) == \A k \in 1..Len(f.kinds) : f.kinds[k] = "partial"
FromSendWechat == call.state # "idle" /\ call.fn \in {"send_wechat", "send_verify_code"}

\* C1: no public call raises, and a sender that ended after a failed attempt
\* returned with a warning as its last log entry.
C1_NothingRaises ==
    /\ call.state # "raised"
    /\ \A t \in Threads :
        (Ended(t) /\ frame[t].kinds # <<>> /\ Last(frame[t].kinds) # "success") =>
            /\ frame[t].pc = "done"
            /\ frame[t].log # <<>> /\ Last(frame[t].log).level = "warning"

\* C4: a batch never gets more than retry_times posts, and a batch whose
\* attempts all reported a partial failure ends after exactly retry_times
\* posts, by returning, with a warning as its last log entry.
C4_RetryLimit ==
    \A t \in Threads :
        (Active(t) /\ frame[t].fn = "_send_wechat") =>
            /\ frame[t].posts <= frame[t].retry_times
            /\ (Ended(t) /\ frame[t].kinds # <<>> /\ AllPartial(frame[t])) =>
                    /\ frame[t].posts = frame[t].retry_times
                    /\ frame[t].pc = "done"
                    /\ frame[t].log # <<>> /\ Last(frame[t].log).level = "warning"

\* a success or a hard failure has been reported to the batch sender on t
Stopped(t) ==
    /\ Active(t) /\ frame[t].fn = "_send_wechat"
    /\ frame[t].kinds # <<>> /\ Last(frame[t].kinds) \in {"success", "hard"}

\* C5: once an attempt of a batch has reported success or a hard failure,
\* the sender of that batch takes no further step but its return: it never
\* posts again.
C5_NoPostAfterFinal ==
    [][\A t \in Threads :
            Stopped(t) => (frame'[t] = frame[t] \/ frame'[t] = IdleFrame)]_vars

C5_Witness ==
    \E t \in Threads :
        /\ Stopped(t) /\ frame[t].pc = "done"
        /\ frame[t].kinds = <<"partial", "hard">>
        /\ frame[t].posts = 2
        /\ frame[t].posts < frame[t].retry_times

\* C6: the recipients of every post a batch sender makes, first attempt
\* and retries, are among the filtered recipients of the send_wechat call.
C6_PostedSubset ==
    \A t \in Threads :
        (frame[t].pc = "posted" /\ frame[t].fn = "_send_wechat") =>
            Range(frame[t].post_data.touser) \subseteq Range(frame[t].filtered)

\* C7: when send_wechat has ended, the batches it dispatched, one call
\* each, have between one and CONFIG.send_batch recipients and concatenate,
\* in order, to the filtered list.
C7_Batches ==
    FromSendWechat =>
        /\ \A k \in 1..Len(call.dispatched) :
                Len(call.dispatched[k]) \in 1..config.send_batch
        /\ call.state \in {"returned", "raised"} => Concat(call.dispatched) = call.users

\* C8: a send_wechat call whose filtered recipient list is empty has
\* returned, with one warning logged, no batch dispatched, no job
\* registered and no sender started.
C8_NoRecipients ==
    (FromSendWechat /\ call.users = <<>>) =>
        /\ call.state = "returned"
        /\ call.log = <<LogEntry("warning", 186)>>
        /\ call.dispatched = <<>>
        /\ jobs = {}
        /\ \A t \in Threads : frame[t].pc = "idle"

C8_Witness ==
    /\ FromSendWechat /\ call.users = <<>>
    /\ config.receivers = PySet({S1, S2}) /\ config.multithread
    /\ call.state = "returned"
    /\ call.log = <<LogEntry("warning", 186)>>

----------------------------------------------------------------------------
(* Claims about the deferred-call wrapper *)

\* the public function calls what _get_caller gave it: once per batch in
\* send_wechat's loop, once in invite_to_wechat
WrapperCalled ==
    \/ call.state = "dispatch" /\ Len(call'.dispatched) = Len(call.dispatched) + 1
    \/ call.state = "idle" /\ call'.state # "idle" /\ call'.fn = "invite_to_wechat"

WrappedFunc(c) == IF c.fn = "invite_to_wechat" THEN "_invite_to_wechat" ELSE "_send_wechat"
PassedUsers(c) == IF c.fn = "invite_to_wechat" THEN c.users ELSE Last(c.dispatched)

\* the public function asked for a deferred call and the configuration allows it
AskedAndAllowed(c) == c.multithread /\ config.multithread

\* C11: a call is deferred exactly when the caller's multithread flag and
\* CONFIG.multithread are both true.  Then each call of the wrapper adds
\* exactly one "date" job with the wrapped function and the call's arguments,
\* starts no sender, and the calling thread never runs a sender during the
\* public call.  Otherwise no job is added and the wrapped function starts on
\* the calling thread with these arguments, nothing posted yet.
C11_WrapperMode ==
    /\ [](call.state # "idle" /\ AskedAndAllowed(call) => frame["caller"].pc = "idle")
    /\ [][WrapperCalled =>
            IF AskedAndAllowed(call')
            THEN /\ frame' = frame
                 /\ Cardinality(jobs') = Cardinality(jobs) + 1
                 /\ \E j \in jobs' :
                        /\ jobs' = jobs \cup {j}
                        /\ j.func = WrappedFunc(call') /\ j.trigger = "date"
                        /\ j.users = PassedUsers(call')
                        /\ j.message = call'.message /\ j.card = call'.card
                        /\ j.url = call'.url /\ j.btntxt = call'.btntxt
                        /\ j.retry_times = call'.retry_times
            ELSE /\ jobs' = jobs
                 /\ frame'["worker"] = frame["worker"]
                 /\ call'.state = "in_call"
                 /\ frame'["caller"] =
                        IF call'.fn = "invite_to_wechat"
                        THEN InviteFrame(PassedUsers(call')[1], call'.retry_times)
                        ELSE SendFrame(PassedUsers(call'), call'.message, call'.card,
                                       call'.url, call'.btntxt, call'.retry_times,
                                       call'.users)]_vars

C11_Witness ==
    /\ FromSendWechat /\ AskedAndAllowed(call)
    /\ call.state = "returned"
    /\ Cardinality(jobs) = 2
    /\ \A t \in Threads : frame[t].pc = "idle"

\* the batch sender on the calling thread has ended after a hard failure or
\* after retry_times attempts that all reported a partial failure
GaveUp(f) ==
    /\ f.pc \in {"done", "raised"} /\ f.fn = "_send_wechat" /\ f.kinds # <<>>
    /\ \/ Last(f.kinds) = "hard"
       \/ AllPartial(f) /\ Len(f.kinds) = f.retry_times

\* C12: in a synchronous send_wechat call the sender on the calling thread
\* works on the batch dispatched last, no further batch is dispatched while
\* it runs, and when it gave up on a batch that is not the last one it
\* returns, so that the loop goes on to the next batch.
C12_BatchesGoOn ==
    (FromSendWechat /\ ~call.deferred) =>
        /\ Active("caller") =>
                /\ call.state = "in_call"
                /\ frame["caller"].users = Last(call.dispatched)
                /\ call.i = Len(Concat(call.dispatched)) - Len(Last(call.dispatched))
        /\ (GaveUp(frame["caller"]) /\ call.i + config.send_batch < Len(call.users)) =>
                frame["caller"].pc = "done"

----------------------------------------------------------------------------
(* Claims about retrying *)

\* C13: with CONFIG.retry off, a batch sender started by send_wechat, inline
\* or from a job, runs with retry_times 1 and posts at most once; after its
\* first attempt it has ended, whatever the attempt reported.
C13_RetryOff ==
    ~config.retry =>
        \A t \in Threads :
            (Active(t) /\ frame[t].fn = "_send_wechat") =>
                /\ frame[t].retry_times = 1
                /\ frame[t].posts <= 1
                /\ frame[t].kinds # <<>> => Ended(t)

C13_Witness ==
    /\ ~config.retry
    /\ \E t \in Threads :
        /\ Active(t) /\ frame[t].fn = "_send_wechat"
        /\ frame[t].pc = "done"
        /\ frame[t].kinds = <<"partial">>
        /\ frame[t].posts = 1

\* what a post carries besides its recipients
Payload(post_data) ==
    [content |-> post_data.content, toall |-> post_data.toall,
     secret |-> post_data.secret, card |-> post_data.card, url |-> post_data.url,
     btntxt |-> post_data.btntxt, user |-> post_data.user]

\* C14: while a batch sender runs, the message, the secret and the card
\* fields of its post data never change, and each post it makes goes to the
\* whole batch on the first attempt and, on a later attempt, to exactly the
\* retry list the attempt before it reported.
C14_Narrowing ==
    [][\A t \in Threads :
            (Active(t) /\ frame'[t].pc # "idle" /\ frame[t].fn = "_send_wechat") =>
                /\ Payload(frame'[t].post_data) = Payload(frame[t].post_data)
                /\ (frame[t].pc = "loop" /\ frame'[t].pc = "posted") =>
                        frame'[t].post_data.touser =
                            IF frame[t].kinds = <<>> THEN frame[t].users
                            ELSE frame[t].retrys[2]]_vars

C14_Witness ==
    \E t \in Threads :
        /\ frame[t].pc = "posted" /\ frame[t].fn = "_send_wechat"
        /\ frame[t].posts = 3 /\ frame[t].kinds = <<"partial", "partial">>
        /\ Len(frame[t].users) = 2
        /\ frame[t].post_data.touser = <<S9>>
        /\ frame[t].post_data.card = PyTrue

\* C15: the invite sender never raises and posts at most retry_times times;
\* it goes on only while every attempt so far reported a failure with a
\* retry list, so it stops at the first success or hard failure; its post
\* data is on every attempt the user and the secret it started with; and it
\* has logged one entry per attempt, a warning for each failed one.
C15_InviteRetries ==
    \A t \in Threads :
        (Active(t) /\ frame[t].fn = "_invite_to_wechat") =>
            LET f == frame[t]
            IN  /\ f.pc # "raised"
                /\ f.posts <= f.retry_times
                /\ f.posts <= Len(f.kinds) + 1
                /\ f.pc \in {"loop", "posted"} => AllPartial(f)
                /\ \A k \in 1..(Len(f.kinds) - 1) : f.kinds[k] = "partial"
                /\ (f.pc = "done" /\ AllPartial(f)) => Len(f.kinds) = f.retry_times
                /\ f.post_data = [touser |-> Absent, content |-> Absent, toall |-> Absent,
                                  secret |-> Secret(f.users[1]), card |-> Absent,
                                  url |-> Absent, btntxt |-> Absent, user |-> f.users[1]]
                /\ Len(f.log) = Len(f.kinds)
                /\ \A k \in 1..Len(f.kinds) :
                        f.log[k].level = IF f.kinds[k] = "success" THEN "info" ELSE "warning"

C15_Witness ==
    \E t \in Threads :
        /\ frame[t].pc = "done" /\ frame[t].fn = "_invite_to_wechat"
        /\ frame[t].retry_times = 3
        /\ frame[t].kinds = <<"partial", "hard">>
        /\ frame[t].posts = 2
        /\ Len(frame[t].log) = 2

----------------------------------------------------------------------------
(* Claims about the time of a deferred call *)

\* the wrapper has been called and has deferred the call
Deferred == wpc = "called" /\ win.multithread /\ config.multithread

\* C16: the job the wrapper registers when it is called at time now is due
\* at the datetime passed as next_run_time, unchanged; at now + d when a
\* timedelta d was passed; and at now + 5 when nothing was passed, as
\* send_wechat and invite_to_wechat do, which is then later than now.
C16_TargetTime ==
    Deferred =>
        \E j \in jobs :
            /\ jobs = {j}
            /\ win.next_run_time \in {Datetime(t) : t \in 0..MaxNow} =>
                    j.next_run_time = win.next_run_time
            /\ \A d \in 0..MaxDelta :
                    win.next_run_time = Timedelta(d) => j.next_run_time = Datetime(now + d)
            /\ win.next_run_time = None =>
                    /\ j.next_run_time = Datetime(now + 5)
                    /\ j.next_run_time[2] > now

C16_Witness ==
    /\ Deferred /\ now = 3
    /\ win.next_run_time = Timedelta(10)
    /\ \E j \in jobs : j.next_run_time = Datetime(13) /\ j.trigger = "date"

----------------------------------------------------------------------------
(* Claims about termination *)

\* ceil(len(users) / CONFIG.send_batch)
Batches(c) == (Len(c.users) + config.send_batch - 1) \div config.send_batch

SyncSend == FromSendWechat /\ ~call.deferred

\* C17: a synchronous send_wechat call has made at most
\* ceil(n / send_batch) * retry_times posts, n the number of filtered
\* recipients and retry_times the count its batch senders run with, and
\* once begun it ends, by returning or by raising.
C17_Terminates ==
    /\ [](SyncSend => call.posts <= Batches(call) * call.retry_times)
    /\ (SyncSend /\ call.state \in {"dispatch", "in_call"})
            ~> (call.state \in {"returned", "raised"})

C17_Witness ==
    /\ SyncSend /\ call.state = "returned"
    /\ Batches(call) = 2 /\ call.retry_times = 3
    /\ call.posts = 6

----------------------------------------------------------------------------
(* Claims about what is reported as a success *)

Logged(f, level) == \E k \in 1..Len(f.log) : f.log[k].level = level

\* C18: a batch sender that has logged a success has had one of its posts
\* answered with status 200.
C18_SuccessMeans200 ==
    \A t \in Threads :
        (Active(t) /\ frame[t].fn = "_send_wechat" /\ Logged(frame[t], "info")) =>
            frame[t].got200

\* C19: with CONFIG.retry off, the invite sender started by invite_to_wechat
\* posts at most once.
C19_InviteRetryOff ==
    ~config.retry =>
        \A t \in Threads :
            (Active(t) /\ frame[t].fn = "_invite_to_wechat") => frame[t].posts <= 1

====
